---- MODULE Spec2Model ----
(***************************************************************************)
(* Model of agent-skills-cli's sync engine (src/agent_skills_cli/sync.py), *)
(* with the manifest schema (schema.py) and persistence (config.py) that   *)
(* it calls.                                                               *)
(*                                                                         *)
(* Python strings that the code takes apart (locators, skill locations,    *)
(* sparse patterns) are sequences of one-character strings; names that     *)
(* are only compared (skill names, agent names, revisions, identifiers)    *)
(* are TLA+ strings.  A Python dict is a function whose domain is the set  *)
(* of its keys.                                                            *)
(***************************************************************************)
EXTENDS Naturals, Sequences, FiniteSets, TLC

\* ------------------------------------------------------------------------
\* Strings and paths
\* ------------------------------------------------------------------------

AlnumChars == {"a", "b", "c", "r", "x", "y", "s", "k", "i", "l", "m", "d",
               "S", "K", "I", "L", "M", "D"}

\* str.lower() on the characters the model uses
LowerChar(c) ==
  CASE c = "S" -> "s" [] c = "K" -> "k" [] c = "I" -> "i"
    [] c = "L" -> "l" [] c = "M" -> "m" [] c = "D" -> "d"
    [] OTHER -> c

Lower(s) == [i \in 1..Len(s) |-> LowerChar(s[i])]

EndsWith(s, suf) ==
  /\ Len(suf) <= Len(s)
  /\ SubSeq(s, Len(s) - Len(suf) + 1, Len(s)) = suf

RECURSIVE RStripChar(_, _)
RStripChar(s, c) ==
  IF s # <<>> /\ s[Len(s)] = c THEN RStripChar(SubSeq(s, 1, Len(s) - 1), c) ELSE s

RECURSIVE LStripChar(_, _)
LStripChar(s, c) ==
  IF s # <<>> /\ s[1] = c THEN LStripChar(Tail(s), c) ELSE s

\* str.strip(): surrounding whitespace
Strip(s) == RStripChar(LStripChar(s, " "), " ")

\* the segments of a path string, as pathlib keeps them: empty segments and
\* "." segments are dropped
RECURSIVE SplitSlash(_, _, _)
SplitSlash(s, cur, acc) ==
  IF s = <<>> THEN (IF cur = <<>> \/ cur = <<".">> THEN acc ELSE Append(acc, cur))
  ELSE IF s[1] = "/"
       THEN SplitSlash(Tail(s), <<>>,
                       IF cur = <<>> \/ cur = <<".">> THEN acc ELSE Append(acc, cur))
       ELSE SplitSlash(Tail(s), Append(cur, s[1]), acc)

Segments(s) == SplitSlash(s, <<>>, <<>>)

RECURSIVE JoinSlash(_)
JoinSlash(segs) ==
  IF segs = <<>> THEN <<>>
  ELSE IF Len(segs) = 1 THEN segs[1]
  ELSE segs[1] \o <<"/">> \o JoinSlash(Tail(segs))

\* str(PurePosixPath(s).parent)
PosixParent(s) ==
  LET segs == Segments(s) IN
    IF Len(segs) <= 1 THEN <<".">> ELSE JoinSlash(SubSeq(segs, 1, Len(segs) - 1))

skill_md == <<"s", "k", "i", "l", "l", ".", "m", "d">>
SKILL_MD == <<"S", "K", "I", "L", "L", ".", "m", "d">>

REFERENCES_GLOB == <<"r", "e", "f", "e", "r", "e", "n", "c", "e", "s", "/", "*", "*">>
SCRIPTS_GLOB == <<"s", "c", "r", "i", "p", "t", "s", "/", "*", "*">>

\* dict.get(key, default)
DictGet(d, k, default) == IF k \in DOMAIN d THEN d[k] ELSE default

\* sync.py:136  _normalize_skill_path
normalize_skill_path(value) ==
  LET raw == Strip(value) IN
    IF raw = <<>> THEN <<>>
    ELSE LET cleaned == RStripChar(raw, "/") IN
           IF EndsWith(Lower(cleaned), skill_md)
           THEN LET parent == PosixParent(cleaned) IN
                  IF parent = <<".">> THEN <<>> ELSE parent
           ELSE cleaned

\* sync.py:311  _dedupe
RECURSIVE dedupe_from(_, _)
dedupe_from(items, output) ==
  IF items = <<>> THEN output
  ELSE IF \E j \in 1..Len(output) : output[j] = items[1]
       THEN dedupe_from(Tail(items), output)
       ELSE dedupe_from(Tail(items), Append(output, items[1]))

dedupe(items) == dedupe_from(items, <<>>)

\* sync.py:121-132  the three patterns of one skill mapping (none when the
\* normalized location is empty)
skill_patterns(skill) ==
  LET path == normalize_skill_path(DictGet(skill, "location", <<>>)) IN
    IF path = <<>> THEN <<>>
    ELSE LET prefix == RStripChar(path, "/")
             base == IF prefix = <<>> \/ prefix = <<".">> THEN <<>>
                     ELSE prefix \o <<"/">>
         IN << base \o SKILL_MD,
               base \o REFERENCES_GLOB,
               base \o SCRIPTS_GLOB >>

RECURSIVE patterns_of(_)
patterns_of(skills) ==
  IF skills = <<>> THEN <<>>
  ELSE skill_patterns(skills[1]) \o patterns_of(Tail(skills))

\* sync.py:118  _collect_sparse_paths
collect_sparse_paths(repo_entry) ==
  dedupe(patterns_of(DictGet(repo_entry, "skills", <<>>)))

\* sync.py:114  _repo_id: runs of non-alphanumerics become "__", then
\* leading and trailing "_" are stripped
RECURSIVE SubNonAlnum(_, _)
SubNonAlnum(s, inRun) ==
  IF s = <<>> THEN <<>>
  ELSE IF s[1] \in AlnumChars
       THEN <<s[1]>> \o SubNonAlnum(Tail(s), FALSE)
       ELSE (IF inRun THEN <<>> ELSE <<"_", "_">>) \o SubNonAlnum(Tail(s), TRUE)

repo_id(repo_url) == RStripChar(LStripChar(SubNonAlnum(repo_url, FALSE), "_"), "_")

\* ------------------------------------------------------------------------
\* schema.py: the validated configuration and its dict form
\* ------------------------------------------------------------------------

DEFAULT_STORE_DIR == ".agent-skills/store"

\* the dict restricted to some of its keys
Pick(d, keys) == [k \in (keys \cap DOMAIN d) |-> d[k]]

SeqToSet(q) == {q[i] : i \in 1..Len(q)}

\* schema.py:81  _validate_unique
unique(items) == \A i, j \in 1..Len(items) : items[i] = items[j] => i = j

\* schema.py:65  _validate_relpath
relpath_ok(path) ==
  /\ Strip(path) # <<>>
  /\ path[1] \notin {"/", "\\"}
  /\ <<".", ".">> \notin SeqToSet(Segments(path))

\* schema.py:118-130  SkillConfig.from_dict and validate: the location of a
\* skill is read from the key "path"
skill_ok(raw) ==
  /\ "name" \in DOMAIN raw
  /\ "path" \in DOMAIN raw
  /\ Strip(raw["path"]) # <<>>
  /\ relpath_ok(raw["path"])
  /\ unique(DictGet(raw, "agents", <<>>))

skill_from_dict(raw) ==
  [name |-> raw["name"], path |-> raw["path"],
   agents |-> DictGet(raw, "agents", <<>>)]

\* schema.py:132  SkillConfig.to_dict
skill_to_dict(skill) ==
  IF skill.agents # <<>> THEN skill ELSE Pick(skill, {"name", "path"})

\* schema.py:150-168  RepoConfig.from_dict and validate (an identifier the
\* model holds is a full hexadecimal one)
repo_ok(raw) ==
  /\ {"repo", "rev"} \subseteq DOMAIN raw
  /\ LET skills == DictGet(raw, "skills", <<>>) IN
       /\ \A i \in 1..Len(skills) : skill_ok(skills[i])
       /\ unique([i \in 1..Len(skills) |-> skills[i]["name"]])

repo_from_dict(raw) ==
  LET skills == DictGet(raw, "skills", <<>>) IN
    Pick(raw, {"repo", "rev", "resolved_sha"})
      @@ [skills |-> [i \in 1..Len(skills) |-> skill_from_dict(skills[i])]]

\* a serialisation that leaves the resolved identifier out: what C29 tells
\* apart
repo_to_dict_no_sha(repo) ==
  Pick(repo, {"repo", "rev"})
    @@ (IF repo.skills # <<>>
        THEN [skills |-> [i \in 1..Len(repo.skills) |-> skill_to_dict(repo.skills[i])]]
        ELSE <<>>)

\* schema.py:170  RepoConfig.to_dict
repo_to_dict(repo) ==
  Pick(repo, {"repo", "rev", "resolved_sha"})
    @@ (IF repo.skills # <<>>
        THEN [skills |-> [i \in 1..Len(repo.skills) |-> skill_to_dict(repo.skills[i])]]
        ELSE <<>>)

\* a validation that compares no skill names across repositories: what C14
\* tells apart
no_skill_names(repos) == <<>>

RECURSIVE all_skill_names(_)
all_skill_names(repos) ==
  IF repos = <<>> THEN <<>>
  ELSE LET skills == DictGet(repos[1], "skills", <<>>) IN
         [i \in 1..Len(skills) |-> skills[i]["name"]] \o all_skill_names(Tail(repos))

\* schema.py:94  AgentConfig.from_dict;  schema.py:104  AgentConfig.to_dict
agent_from_dict(raw) == Pick(raw, {"target_dir"})

\* schema.py:190-224  RootConfig.from_dict with validate: TRUE when no
\* ConfigError is raised
root_ok(raw) ==
  /\ "version" \in DOMAIN raw
  /\ raw["version"] = 1
  /\ LET repos == DictGet(raw, "repos", <<>>) IN
       /\ \A i \in 1..Len(repos) : repo_ok(repos[i])
       /\ unique([i \in 1..Len(repos) |-> repos[i]["repo"]])
       /\ unique(all_skill_names(repos))

root_from_dict(raw) ==
  LET repos == DictGet(raw, "repos", <<>>)
      agents == DictGet(raw, "agents", <<>>)
  IN [version |-> raw["version"],
      store_dir |-> DictGet(raw, "store_dir", DEFAULT_STORE_DIR),
      agents |-> [a \in DOMAIN agents |-> agent_from_dict(agents[a])],
      repos |-> [i \in 1..Len(repos) |-> repo_from_dict(repos[i])]]

\* schema.py:226  RootConfig.to_dict
root_to_dict(config) ==
  Pick(config, {"version", "store_dir"})
    @@ (IF DOMAIN config.agents # {} THEN Pick(config, {"agents"}) ELSE <<>>)
    @@ (IF config.repos # <<>>
        THEN [repos |-> [i \in 1..Len(config.repos) |-> repo_to_dict(config.repos[i])]]
        ELSE <<>>)

\* ------------------------------------------------------------------------
\* The world the sync engine runs in: remote repositories, the store, links
\* ------------------------------------------------------------------------

\* longest manifest (number of repository entries) the model starts from
MaxRepos == 2
\* sync invocations in a row
MaxRuns == 2

LocA == <<"a", "/", "r">>
LocA2 == <<"a", "-", "r">>
LocB == <<"b", "/">>
Locators == {LocA, LocA2, LocB}

\* a store subtree no locator of the model owns
OrphanRoot == <<"c">>
RepoRoots == {repo_id(l) : l \in Locators} \cup {OrphanRoot}

\* what `git fetch origin rev` + `git rev-parse HEAD` (sync.py:175-194) may
\* answer for a locator: a branch can move between runs
Resolutions(repo_url) ==
  CASE repo_url = LocA -> {"a1", "a2"}
    [] repo_url = LocA2 -> {"c1"}
    [] repo_url = LocB -> {"b1", "b2"}

Shas == UNION {Resolutions(l) : l \in Locators}

\* the directories (as segment sequences) that hold a SKILL.md in the commit
RemoteTree(sha) ==
  CASE sha \in {"a1", "a2"} -> {<< <<"x">> >>}
    [] sha = "c1" -> {<<>>}
    [] sha = "b1" -> {<< <<"y">> >>}
    [] OTHER -> {}

HasSlash(s) == \E i \in 1..Len(s) : s[i] = "/"

\* git sparse-checkout --no-cone (sync.py:162-173): a pattern with a slash
\* is anchored at the root, a pattern without one matches at every level
PatternSelects(pattern, dir) ==
  \/ pattern = JoinSlash(Append(dir, SKILL_MD))
  \/ (~HasSlash(pattern) /\ pattern = SKILL_MD)

\* the SKILL.md directories of the working tree checked out with the patterns
CheckedOut(sha, sparse_paths) ==
  {d \in RemoteTree(sha) : \E i \in 1..Len(sparse_paths) : PatternSelects(sparse_paths[i], d)}

\* A store directory store_dir/root/name: an export (name = identifier) or
\* a temporary export (name = ".tmp-" + identifier), with the SKILL.md
\* directories it holds.
Dir(root, tmp, sha, tree) == [root |-> root, tmp |-> tmp, sha |-> sha, tree |-> tree]

\* Path.exists() of store_dir/root/name
DirExists(st, root, tmp, sha) ==
  \E e \in st.dirs : e.root = root /\ e.tmp = tmp /\ e.sha = sha

\* shutil.rmtree of store_dir/root/name
RmDir(st, root, tmp, sha) ==
  [st EXCEPT !.dirs = {e \in st.dirs : ~(e.root = root /\ e.tmp = tmp /\ e.sha = sha)}]

\* shutil.rmtree of store_dir/root
RmRoot(st, root) ==
  [roots |-> st.roots \ {root}, dirs |-> {e \in st.dirs : e.root # root}]

\* A path inside an export: store_dir/root/sha/dir
StorePath(root, sha, dir) == [root |-> root, sha |-> sha, dir |-> dir]

\* (path / "SKILL.md").is_file()
HasSkillMd(st, path) ==
  \E e \in st.dirs : e.root = path.root /\ ~e.tmp /\ e.sha = path.sha /\ path.dir \in e.tree

IsPrefix(p, q) == Len(p) <= Len(q) /\ SubSeq(q, 1, Len(p)) = p

\* path.exists() and path.is_dir(): the export itself, or a directory on the
\* way to one of its SKILL.md files
IsDir(st, path) ==
  \E e \in st.dirs : /\ e.root = path.root /\ ~e.tmp /\ e.sha = path.sha
                     /\ (path.dir = <<>> \/ \E d \in e.tree : IsPrefix(path.dir, d))

\* Link destinations: Absent, a symlink (to a store path), a plain file, an
\* empty directory or a non-empty directory.
Absent == [kind |-> "absent"]
Symlink(target) == [kind |-> "symlink", to |-> target]
PlainFile == [kind |-> "file"]
EmptyDir == [kind |-> "emptydir"]
FullDir == [kind |-> "fulldir"]

\* ------------------------------------------------------------------------
\* sync.py: the operations of the engine, on the store and the links
\* ------------------------------------------------------------------------

\* sync.py:155-211  _export_sparse_repo once git resolved rev to sha, in a run
\* that nothing interrupts: the store afterwards, and whether it was created
export_sparse_repo(st, repo_root, sha, sparse_paths) ==
  LET made == [st EXCEPT !.roots = @ \cup {repo_root}] IN
    IF DirExists(made, repo_root, FALSE, sha)
    THEN [store |-> made, created |-> FALSE]
    ELSE LET cleared == RmDir(made, repo_root, TRUE, sha) IN
           [store |-> [cleared EXCEPT !.dirs = @ \cup
                         {Dir(repo_root, FALSE, sha, CheckedOut(sha, sparse_paths))}],
            created |-> TRUE]

\* sync.py:155-210  the store after an export that raised: how == "git" is a
\* failing git command, how == "copy" a failing copy into the temporary
\* directory, which the finally clause removes
export_failed(st, repo_root, sha, how) ==
  LET made == [st EXCEPT !.roots = @ \cup {repo_root}] IN
    IF how = "git" THEN made ELSE RmDir(made, repo_root, TRUE, sha)

\* a linker whose force removes whatever is in the way: what C11 tells apart
ensure_symlink_force_all(link, st, target, frc) ==
  IF ~IsDir(st, target) THEN [ok |-> FALSE, link |-> link]
  ELSE IF link.kind \in {"symlink", "absent"} THEN [ok |-> TRUE, link |-> Symlink(target)]
  ELSE IF ~frc THEN [ok |-> FALSE, link |-> link]
  ELSE [ok |-> TRUE, link |-> Symlink(target)]

\* a linker that replaces a symlink only under force: what C12 tells apart
ensure_symlink_keeps_links(link, st, target, frc) ==
  IF ~IsDir(st, target) THEN [ok |-> FALSE, link |-> link]
  ELSE IF link.kind = "absent" THEN [ok |-> TRUE, link |-> Symlink(target)]
  ELSE IF link.kind = "symlink" /\ link.to = target THEN [ok |-> TRUE, link |-> link]
  ELSE IF ~frc THEN [ok |-> FALSE, link |-> link]
  ELSE IF link.kind = "fulldir" THEN [ok |-> FALSE, link |-> link]
  ELSE [ok |-> TRUE, link |-> Symlink(target)]

\* sync.py:240  _ensure_symlink: ok = FALSE for a ConfigError; link is the
\* destination afterwards
ensure_symlink(link, st, target, frc) ==
  IF ~IsDir(st, target) THEN [ok |-> FALSE, link |-> link]
  ELSE IF link.kind = "symlink"
       THEN IF link.to = target THEN [ok |-> TRUE, link |-> link]
            ELSE [ok |-> TRUE, link |-> Symlink(target)]
  ELSE IF link.kind = "absent" THEN [ok |-> TRUE, link |-> Symlink(target)]
  ELSE IF ~frc THEN [ok |-> FALSE, link |-> link]
  ELSE IF link.kind = "fulldir" THEN [ok |-> FALSE, link |-> link]
  ELSE [ok |-> TRUE, link |-> Symlink(target)]

\* sync.py:241-256  the ConfigError _ensure_symlink raises and the path its
\* message names; kind "" when it raises none
ensure_symlink_error(at, link, st, target, frc) ==
  IF ~IsDir(st, target) THEN [kind |-> "target", path |-> target]
  ELSE IF link.kind \in {"symlink", "absent"} THEN [kind |-> ""]
  ELSE IF ~frc THEN [kind |-> "exists", path |-> at]
  ELSE IF link.kind = "fulldir" THEN [kind |-> "nonempty", path |-> at]
  ELSE [kind |-> ""]

\* sync.py:245-259  whether _ensure_symlink removes or creates anything at
\* the link path
ensure_symlink_writes(link, st, target, frc) ==
  /\ ensure_symlink(link, st, target, frc).ok
  /\ ~(link.kind = "symlink" /\ link.to = target)

\* sync.py:221  _link_skill: the agents in order; stops at the first error
RECURSIVE link_skill(_, _, _, _, _, _, _)
link_skill(lnk, st, skill_path, skill_name, agents, agent_targets, frc) ==
  IF agents = <<>> THEN [ok |-> TRUE, links |-> lnk]
  ELSE LET agent == agents[1]
           target_cfg == DictGet(agent_targets, agent, <<>>)
       IN IF "target_dir" \in DOMAIN target_cfg
          THEN LET at == <<target_cfg["target_dir"], skill_name>>
                   r == ensure_symlink(lnk[at], st, skill_path, frc)
               IN IF r.ok
                  THEN link_skill([lnk EXCEPT ![at] = r.link], st, skill_path,
                                  skill_name, Tail(agents), agent_targets, frc)
                  ELSE [ok |-> FALSE, links |-> lnk]
          ELSE link_skill(lnk, st, skill_path, skill_name, Tail(agents),
                          agent_targets, frc)

\* sync.py:297-308  the directories _cleanup_repo_root removes
repo_root_victims(st, repo_root, keep) ==
  {e \in st.dirs : e.root = repo_root /\ ~(~e.tmp /\ e.sha \in keep)}

\* sync.py:292  _cleanup_repo_root
cleanup_repo_root(st, repo_root, keep) ==
  IF repo_root \notin st.roots THEN st
  ELSE [st EXCEPT !.dirs = @ \ repo_root_victims(st, repo_root, keep)]

\* sync.py:276-277  every processed repository's subtree is cleaned
RECURSIVE cleanup_processed(_, _, _)
cleanup_processed(st, processed, todo) ==
  IF todo = {} THEN st
  ELSE LET r == CHOOSE r \in todo : TRUE IN
         cleanup_processed(cleanup_repo_root(st, r, {processed[r]}), processed,
                           todo \ {r})

\* a pruning pass that removes one stale subtree per run: what C7 tells apart
pruned_one_root(st, processed) ==
  LET stale == st.roots \ DOMAIN processed IN
    IF stale = {} THEN {} ELSE {CHOOSE r \in stale : TRUE}

\* sync.py:282-289  the subtrees a full sync prunes
pruned_roots(st, processed) == st.roots \ DOMAIN processed

RECURSIVE remove_roots(_, _)
remove_roots(st, todo) ==
  IF todo = {} THEN st
  ELSE LET r == CHOOSE r \in todo : TRUE IN remove_roots(RmRoot(st, r), todo \ {r})

\* a clean-up that prunes no subtree: what C5 tells apart
cleanup_store_keeps_roots(st, processed, filter) ==
  cleanup_processed(st, processed, DOMAIN processed)

\* a clean-up that prunes whatever the filter is: what C6 tells apart
cleanup_store_ignores_filter(st, processed, filter) ==
  LET cleaned == cleanup_processed(st, processed, DOMAIN processed) IN
    remove_roots(cleaned, st.roots \ DOMAIN processed)

\* sync.py:269  _cleanup_store; filter.all is repo_filter is None
cleanup_store(st, processed, filter) ==
  LET cleaned == cleanup_processed(st, processed, DOMAIN processed) IN
    IF ~filter.all THEN cleaned
    ELSE remove_roots(cleaned, pruned_roots(cleaned, processed))

\* a rollback that removes the whole subtree of each created directory: what
\* C2 tells apart
RECURSIVE rollback_subtrees(_, _)
rollback_subtrees(st, created) ==
  IF created = <<>> THEN st
  ELSE LET rest == rollback_subtrees(st, Tail(created)) IN
         [rest EXCEPT !.dirs = {e \in @ : e.root # created[1].root}]

\* sync.py:107-110  the rollback: every created directory that still exists
\* is removed
RECURSIVE rollback(_, _)
rollback(st, created) ==
  IF created = <<>> THEN st
  ELSE rollback(RmDir(st, created[1].root, FALSE, created[1].sha), Tail(created))

\* ------------------------------------------------------------------------
\* State
\* ------------------------------------------------------------------------

VARIABLES
  manifest,        \* the parsed content of the manifest file (<<>>: empty file)
  store,           \* [roots, dirs]: the store root's subtrees and their directories
  links,           \* <<target_dir, skill name>> -> what is at that path
  pc,              \* where the sync invocation stands
  config,          \* sync.py:34  the loaded RootConfig
  data,            \* sync.py:35  config.to_dict(), mutated by the run
  repo_filter,     \* sync.py:32  [all |-> TRUE] is None
  force,           \* sync.py:32
  ri,              \* index of the repository entry of the loop at sync.py:52
  si,              \* index of the skill of the loop at sync.py:79
  created_dirs,    \* sync.py:48
  processed_repos, \* sync.py:49
  failed_at,       \* the step that raised, "" when none did
  pre,             \* manifest, store and links when the invocation began
  prev,            \* the previous invocation: its arguments, outcome and final state
  runs,            \* invocations begun
  xdest,           \* sync.py:196  the directory repo_root/<identifier>
  xtemp,           \* sync.py:201  the directory repo_root/.tmp-<identifier>
  xpc,             \* where each run stands in lines 196-211 of _export_sparse_repo
  xi,              \* the next file each run's copy writes
  xerr,            \* whether an error is pending in each run
  xseen,           \* the files each run found, or put, at the final path
  xwork,           \* sync.py:155  whether each run's TemporaryDirectory exists
  call,            \* the last call of the linker or of a command: arguments and outcome
  tmpfile,         \* cli.py:44  the temporary manifest file of install (absent or its content)
  store_root       \* sync.py:37  whether the directory store_dir exists

svars == <<manifest, store, links, pc, config, data, repo_filter, force, ri, si,
           created_dirs, processed_repos, failed_at, pre, prev, runs>>

svars_but_links ==
  <<manifest, store, pc, config, data, repo_filter, force, ri, si, created_dirs,
    processed_repos, failed_at, pre, prev, runs>>

xvars == <<xdest, xtemp, xpc, xi, xerr, xseen, xwork>>

cvars == <<call, tmpfile, store_root>>

vars == <<svars, xvars, cvars>>

NoFilter == [all |-> TRUE, repos |-> {}]
OnlyRepo(repo_url) == [all |-> FALSE, repos |-> {repo_url}]
Filters == {NoFilter} \cup {OnlyRepo(l) : l \in Locators}

Repos == DictGet(data, "repos", <<>>)
Entry == Repos[ri]
EntrySkills == DictGet(Entry, "skills", <<>>)
EntryRoot == repo_id(Entry["repo"])

\* sync.py:53  the repository entry is outside the filter
Filtered(entry) == ~repo_filter.all /\ entry["repo"] \notin repo_filter.repos

Snapshot == [manifest |-> manifest, store |-> store, links |-> links]

\* ------------------------------------------------------------------------
\* Actions: one sync invocation, step by step
\* ------------------------------------------------------------------------

\* sync.py:19-49  sync_config / sync_repo up to the call of _sync_body;
\* load_config raises before anything is touched.  An invocation that follows
\* another repeats its command.
StartSync(filter, frc) ==
  /\ pc = "idle"
  /\ UNCHANGED <<xvars, call, tmpfile>>
  /\ store_root' = (store_root \/ root_ok(manifest))
  /\ runs < MaxRuns
  /\ runs > 0 => filter = prev.filter /\ frc = prev.force
  /\ runs' = runs + 1
  /\ repo_filter' = filter
  /\ force' = frc
  /\ pre' = Snapshot
  /\ created_dirs' = <<>>
  /\ processed_repos' = <<>>
  /\ ri' = 1
  /\ si' = 1
  /\ IF root_ok(manifest)
     THEN /\ config' = root_from_dict(manifest)
          /\ data' = root_to_dict(root_from_dict(manifest))
          /\ pc' = "loop"
          /\ failed_at' = ""
     ELSE /\ pc' = "failed"
          /\ failed_at' = "load"
          /\ UNCHANGED <<config, data>>
  /\ UNCHANGED <<manifest, store, links, prev>>

\* sync.py:52  the loop over the repository entries is exhausted
LoopEnd ==
  /\ pc = "loop"
  /\ UNCHANGED <<xvars, cvars>>
  /\ ri > Len(Repos)
  /\ pc' = "prune"
  /\ UNCHANGED <<manifest, store, links, config, data, repo_filter, force, ri, si,
                 created_dirs, processed_repos, failed_at, pre, prev, runs>>

\* sync.py:53-54
SkipFiltered ==
  /\ pc = "loop"
  /\ UNCHANGED <<xvars, cvars>>
  /\ ri <= Len(Repos)
  /\ Filtered(Entry)
  /\ ri' = ri + 1
  /\ UNCHANGED <<manifest, store, links, pc, config, data, repo_filter, force, si,
                 created_dirs, processed_repos, failed_at, pre, prev, runs>>

\* sync.py:58-61
SkipNoPaths ==
  /\ pc = "loop"
  /\ UNCHANGED <<xvars, cvars>>
  /\ ri <= Len(Repos)
  /\ ~Filtered(Entry)
  /\ collect_sparse_paths(Entry) = <<>>
  /\ ri' = ri + 1
  /\ UNCHANGED <<manifest, store, links, pc, config, data, repo_filter, force, si,
                 created_dirs, processed_repos, failed_at, pre, prev, runs>>

\* sync.py:63-78  the export succeeds with identifier sha
Export(sha) ==
  /\ pc = "loop"
  /\ UNCHANGED <<xvars, cvars>>
  /\ ri <= Len(Repos)
  /\ ~Filtered(Entry)
  /\ collect_sparse_paths(Entry) # <<>>
  /\ sha \in Resolutions(Entry["repo"])
  /\ LET r == export_sparse_repo(store, EntryRoot, sha, collect_sparse_paths(Entry)) IN
       /\ store' = r.store
       /\ created_dirs' = IF r.created
                          THEN Append(created_dirs, [root |-> EntryRoot, sha |-> sha])
                          ELSE created_dirs
  /\ data' = [data EXCEPT !.repos[ri] = [resolved_sha |-> sha] @@ @]
  /\ processed_repos' = (EntryRoot :> sha) @@ processed_repos
  /\ pc' = "skills"
  /\ si' = 1
  /\ UNCHANGED <<manifest, links, config, repo_filter, force, ri, failed_at, pre,
                 prev, runs>>

\* sync.py:65-71  the export raises: a git command fails, or the copy does
ExportFail(sha, how) ==
  /\ pc = "loop"
  /\ UNCHANGED <<xvars, cvars>>
  /\ ri <= Len(Repos)
  /\ ~Filtered(Entry)
  /\ collect_sparse_paths(Entry) # <<>>
  /\ sha \in Resolutions(Entry["repo"])
  /\ how \in {"git", "copy"}
  /\ how = "copy" => ~DirExists(store, EntryRoot, FALSE, sha)
  /\ store' = export_failed(store, EntryRoot, sha, how)
  /\ pc' = "rollback"
  /\ failed_at' = "export"
  /\ UNCHANGED <<manifest, links, config, data, repo_filter, force, ri, si,
                 created_dirs, processed_repos, pre, prev, runs>>

Skill == EntrySkills[si]

\* sync.py:78-81  the skill's directory in the export just resolved
SkillPath ==
  StorePath(EntryRoot, processed_repos[EntryRoot],
            Segments(normalize_skill_path(DictGet(Skill, "location", <<>>))))

\* sync.py:79  the loop over the skills of the repository is exhausted
SkillsEnd ==
  /\ pc = "skills"
  /\ UNCHANGED <<xvars, cvars>>
  /\ si > Len(EntrySkills)
  /\ pc' = "loop"
  /\ ri' = ri + 1
  /\ UNCHANGED <<manifest, store, links, config, data, repo_filter, force, si,
                 created_dirs, processed_repos, failed_at, pre, prev, runs>>

\* a skill step that links without looking for SKILL.md: what C13 tells apart
VerifyAndLinkBlind ==
  /\ pc = "skills"
  /\ UNCHANGED <<xvars, cvars>>
  /\ si <= Len(EntrySkills)
  /\ LET r == link_skill(links, store, SkillPath, Skill["name"],
                         DictGet(Skill, "agents", <<>>), config.agents, force)
     IN /\ links' = r.links
        /\ IF r.ok
           THEN /\ si' = si + 1
                /\ UNCHANGED <<pc, failed_at>>
           ELSE /\ pc' = "rollback"
                /\ failed_at' = "link"
                /\ UNCHANGED si
  /\ UNCHANGED <<manifest, store, config, data, repo_filter, force, ri,
                 created_dirs, processed_repos, pre, prev, runs>>

\* sync.py:80-93  one skill: SKILL.md is looked for, then the skill is linked
VerifyAndLink ==
  /\ pc = "skills"
  /\ UNCHANGED <<xvars, cvars>>
  /\ si <= Len(EntrySkills)
  /\ IF ~HasSkillMd(store, SkillPath)
     THEN /\ pc' = "rollback"
          /\ failed_at' = "verify"
          /\ UNCHANGED <<links, si>>
     ELSE LET r == link_skill(links, store, SkillPath, Skill["name"],
                              DictGet(Skill, "agents", <<>>), config.agents, force)
          IN /\ links' = r.links
             /\ IF r.ok
                THEN /\ si' = si + 1
                     /\ UNCHANGED <<pc, failed_at>>
                ELSE /\ pc' = "rollback"
                     /\ failed_at' = "link"
                     /\ UNCHANGED si
  /\ UNCHANGED <<manifest, store, config, data, repo_filter, force, ri,
                 created_dirs, processed_repos, pre, prev, runs>>

\* a pruning pass that runs while repository entries are still to come: what
\* C21 tells apart
CleanupEarly ==
  /\ pc \in {"loop", "prune"}
  /\ UNCHANGED <<xvars, cvars>>
  /\ store' = cleanup_store(store, processed_repos, repo_filter)
  /\ pc' = "persist"
  /\ UNCHANGED <<manifest, links, config, data, repo_filter, force, ri, si,
                 created_dirs, processed_repos, failed_at, pre, prev, runs>>

\* sync.py:95-100  _cleanup_store runs to its end
Cleanup ==
  /\ pc = "prune"
  /\ UNCHANGED <<xvars, cvars>>
  /\ store' = cleanup_store(store, processed_repos, repo_filter)
  /\ pc' = "persist"
  /\ UNCHANGED <<manifest, links, config, data, repo_filter, force, ri, si,
                 created_dirs, processed_repos, failed_at, pre, prev, runs>>

\* sync.py:95-100  a shutil.rmtree of _cleanup_store raises: some of the
\* directories of the processed subtrees are gone (gone), or all of them and
\* some of the subtrees a full sync prunes (goneRoots)
CleanupFail ==
  /\ pc = "prune"
  /\ UNCHANGED <<xvars, cvars>>
  /\ LET cleaned == cleanup_processed(store, processed_repos, DOMAIN processed_repos)
         victims == store.dirs \ cleaned.dirs
         doomed == IF repo_filter.all THEN pruned_roots(cleaned, processed_repos) ELSE {}
     IN \E gone \in SUBSET victims, goneRoots \in SUBSET doomed :
          /\ IF gone = victims THEN goneRoots # doomed ELSE goneRoots = {}
          /\ store' = remove_roots([store EXCEPT !.dirs = @ \ gone], goneRoots)
  /\ pc' = "rollback"
  /\ failed_at' = "prune"
  /\ UNCHANGED <<manifest, links, config, data, repo_filter, force, ri, si,
                 created_dirs, processed_repos, pre, prev, runs>>

\* sync.py:101, config.py:42-64  RootConfig.from_dict(data) validates, then
\* _dump_yaml opens the manifest file for writing, which empties it
Persist ==
  /\ pc = "persist"
  /\ UNCHANGED <<xvars, cvars>>
  /\ IF root_ok(data)
     THEN /\ manifest' = <<>>
          /\ pc' = "write"
          /\ UNCHANGED failed_at
     ELSE /\ pc' = "rollback"
          /\ failed_at' = "persist"
          /\ UNCHANGED manifest
  /\ UNCHANGED <<store, links, config, data, repo_filter, force, ri, si,
                 created_dirs, processed_repos, pre, prev, runs>>

\* config.py:64-65  the content is written and the file closed
Write ==
  /\ pc = "write"
  /\ UNCHANGED <<xvars, cvars>>
  /\ manifest' = root_to_dict(root_from_dict(data))
  /\ pc' = "done"
  /\ UNCHANGED <<store, links, config, data, repo_filter, force, ri, si,
                 created_dirs, processed_repos, failed_at, pre, prev, runs>>

\* config.py:65  handle.write raises (the disk is full, an I/O error)
WriteFail ==
  /\ pc = "write"
  /\ UNCHANGED <<xvars, cvars>>
  /\ pc' = "rollback"
  /\ failed_at' = "write"
  /\ UNCHANGED <<manifest, store, links, config, data, repo_filter, force, ri, si,
                 created_dirs, processed_repos, pre, prev, runs>>

\* sync.py:106-111  the except clause
Rollback ==
  /\ pc = "rollback"
  /\ UNCHANGED <<xvars, cvars>>
  /\ store' = rollback(store, created_dirs)
  /\ pc' = "failed"
  /\ UNCHANGED <<manifest, links, config, data, repo_filter, force, ri, si,
                 created_dirs, processed_repos, failed_at, pre, prev, runs>>

\* the invocation has returned or raised and its locals are gone; the next
\* one may begin
Return ==
  /\ pc \in {"done", "failed"}
  /\ UNCHANGED <<xvars, cvars>>
  /\ runs < MaxRuns
  /\ prev' = [ok |-> pc = "done", filter |-> repo_filter, force |-> force,
              post |-> Snapshot]
  /\ pc' = "idle"
  /\ config' = <<>>
  /\ data' = <<>>
  /\ repo_filter' = NoFilter
  /\ force' = FALSE
  /\ ri' = 1
  /\ si' = 1
  /\ created_dirs' = <<>>
  /\ processed_repos' = <<>>
  /\ failed_at' = ""
  /\ pre' = Snapshot
  /\ UNCHANGED <<manifest, store, links, runs>>

\* ------------------------------------------------------------------------
\* sync.py:196-211 step by step: the export of one identifier of one
\* repository by runs that may be killed or may overlap
\* ------------------------------------------------------------------------

\* files of the fetched working tree
NumFiles == 2
\* runs that export the identifier
NumProcs == 2

Files == 1..NumFiles
Procs == 1..NumProcs

NoTree == [exists |-> FALSE, files |-> {}]
Tree(files) == [exists |-> TRUE, files |-> files]

\* the run is between sync.py:196 and its return
Live(p) == xpc[p] \in {"check", "checktemp", "rmtemp", "mkdir", "copy", "finally"}

\* a copy that stops after its first file: what C8 tells apart
copy_done_early(i) == i > 1

\* sync.py:206  shutil.copytree has gone through every file
copy_done(i) == i > NumFiles

\* sync.py:207  Path.replace, rename(2): a directory replaces only an empty
\* directory or nothing
can_replace(temp, dest) == temp.exists /\ (dest.exists => dest.files = {})

NoCall == [op |-> "none"]
NoFile == [exists |-> FALSE]

\* No run is exporting, and no call of the linker or of a command was made.
ExportIdle ==
  /\ call = NoCall
  /\ tmpfile = NoFile
  /\ xdest = NoTree
  /\ xtemp = NoTree
  /\ xpc = [p \in Procs |-> "off"]
  /\ xi = [p \in Procs |-> 1]
  /\ xerr = [p \in Procs |-> FALSE]
  /\ xseen = [p \in Procs |-> {}]
  /\ xwork = [p \in Procs |-> FALSE]

\* a working area that stays behind when the export raises: what C24 tells
\* apart
work_kept_on_error(exists, state) == exists /\ state \notin {"reused", "created"}

\* sync.py:155  with tempfile.TemporaryDirectory(): the working area is
\* removed when the block is left, by a return or by an exception
work_kept(exists, state) == exists /\ state \notin {"reused", "created", "failed"}

\* sync.py:156-196  a run has fetched and resolved the identifier; alone is
\* TRUE when runs follow one another
XStart(p, alone) ==
  /\ xpc[p] = "off"
  /\ alone => \A q \in Procs : ~Live(q)
  /\ xpc' = [xpc EXCEPT ![p] = "check"]
  /\ UNCHANGED <<xdest, xtemp, xi, xerr, xseen, svars, cvars>>
  /\ xwork' = [xwork EXCEPT ![p] = TRUE]

\* sync.py:197-199  dest.exists()
XCheckDest(p) ==
  /\ xpc[p] = "check"
  /\ IF xdest.exists
     THEN /\ xpc' = [xpc EXCEPT ![p] = "reused"]
          /\ xseen' = [xseen EXCEPT ![p] = xdest.files]
     ELSE /\ xpc' = [xpc EXCEPT ![p] = "checktemp"]
          /\ UNCHANGED xseen
  /\ UNCHANGED <<xdest, xtemp, xi, xerr, svars, cvars>>
  /\ xwork' = [xwork EXCEPT ![p] = work_kept(@, xpc'[p])]

\* sync.py:202  temp_export.exists()
XCheckTemp(p) ==
  /\ xpc[p] = "checktemp"
  /\ xpc' = [xpc EXCEPT ![p] = IF xtemp.exists THEN "rmtemp" ELSE "mkdir"]
  /\ UNCHANGED <<xdest, xtemp, xi, xerr, xseen, svars, cvars>>
  /\ xwork' = [xwork EXCEPT ![p] = work_kept(@, xpc'[p])]

\* sync.py:203  shutil.rmtree(temp_export), outside the try: it raises when
\* the directory is gone
XRmTemp(p) ==
  /\ xpc[p] = "rmtemp"
  /\ xtemp' = NoTree
  /\ xpc' = [xpc EXCEPT ![p] = IF xtemp.exists THEN "mkdir" ELSE "failed"]
  /\ UNCHANGED <<xdest, xi, xerr, xseen, svars, cvars>>
  /\ xwork' = [xwork EXCEPT ![p] = work_kept(@, xpc'[p])]

\* sync.py:206  copytree's os.makedirs(dest): FileExistsError when it exists
XMkdir(p) ==
  /\ xpc[p] = "mkdir"
  /\ IF xtemp.exists
     THEN /\ xerr' = [xerr EXCEPT ![p] = TRUE]
          /\ xpc' = [xpc EXCEPT ![p] = "finally"]
          /\ UNCHANGED xtemp
     ELSE /\ xtemp' = Tree({})
          /\ xpc' = [xpc EXCEPT ![p] = "copy"]
          /\ UNCHANGED xerr
  /\ UNCHANGED <<xdest, xi, xseen, svars, cvars>>
  /\ xwork' = [xwork EXCEPT ![p] = work_kept(@, xpc'[p])]

\* sync.py:206  copytree copies the next file; an error (the directory is
\* gone) is collected and raised after the last file
XCopy(p) ==
  /\ xpc[p] = "copy"
  /\ ~copy_done(xi[p])
  /\ IF xtemp.exists
     THEN /\ xtemp' = Tree(xtemp.files \cup {xi[p]})
          /\ UNCHANGED xerr
     ELSE /\ xerr' = [xerr EXCEPT ![p] = TRUE]
          /\ UNCHANGED xtemp
  /\ xi' = [xi EXCEPT ![p] = @ + 1]
  /\ UNCHANGED <<xdest, xpc, xseen, svars, cvars>>
  /\ UNCHANGED xwork

\* sync.py:206  copytree cannot write the next file (an I/O error, a full
\* disk): the error is collected and the copy goes on
XCopyError(p) ==
  /\ xpc[p] = "copy"
  /\ ~copy_done(xi[p])
  /\ xtemp.exists
  /\ xerr' = [xerr EXCEPT ![p] = TRUE]
  /\ xi' = [xi EXCEPT ![p] = @ + 1]
  /\ UNCHANGED <<xdest, xtemp, xpc, xseen, xwork, svars, cvars>>

\* sync.py:206-207  copytree returns or raises; temp_export.replace(dest)
XRename(p) ==
  /\ xpc[p] = "copy"
  /\ copy_done(xi[p])
  /\ xpc' = [xpc EXCEPT ![p] = "finally"]
  /\ IF ~xerr[p] /\ can_replace(xtemp, xdest)
     THEN /\ xdest' = xtemp
          /\ xtemp' = NoTree
          /\ xseen' = [xseen EXCEPT ![p] = xtemp.files]
          /\ UNCHANGED xerr
     ELSE /\ xerr' = [xerr EXCEPT ![p] = TRUE]
          /\ UNCHANGED <<xdest, xtemp, xseen>>
  /\ UNCHANGED <<xi, svars, cvars>>
  /\ xwork' = [xwork EXCEPT ![p] = work_kept(@, xpc'[p])]

\* sync.py:208-211  the finally clause, then the return or the exception
XFinally(p) ==
  /\ xpc[p] = "finally"
  /\ xtemp' = NoTree
  /\ xpc' = [xpc EXCEPT ![p] = IF xerr[p] THEN "failed" ELSE "created"]
  /\ UNCHANGED <<xdest, xi, xerr, xseen, svars, cvars>>
  /\ xwork' = [xwork EXCEPT ![p] = work_kept(@, xpc'[p])]

\* the process of the run is killed: no finally clause runs
XKill(p) ==
  /\ Live(p)
  /\ xpc' = [xpc EXCEPT ![p] = "killed"]
  /\ UNCHANGED <<xdest, xtemp, xi, xerr, xseen, svars, cvars>>
  /\ xwork' = [xwork EXCEPT ![p] = work_kept(@, xpc'[p])]

\* ------------------------------------------------------------------------
\* Initial states
\* ------------------------------------------------------------------------

CODEX_DIR == ".codex/skills"

\* config.py:15-19 in small: an agent with a target directory, one without
AgentsRaw == [codex |-> [target_dir |-> CODEX_DIR], claude |-> <<>>]

SkillNames == {"s1", "s2", "s3"}
LinkPaths == {CODEX_DIR} \X SkillNames

\* a skill mapping whose location sits under the key `key`
SkillDict(name, key, location, agents) ==
  (key :> location) @@ [name |-> name, agents |-> agents]

\* the skill each locator's repository is declared with
SkillOf(repo_url, key) ==
  CASE repo_url = LocA -> SkillDict("s1", key, <<"x">>, <<"codex", "claude">>)
    [] repo_url = LocA2 -> SkillDict("s3", key, <<".">>, <<"codex">>)
    [] repo_url = LocB -> SkillDict("s2", key, <<"y", "/">> \o SKILL_MD, <<"codex">>)

FirstSha(repo_url) ==
  CASE repo_url = LocA -> "a1" [] repo_url = LocA2 -> "c1" [] repo_url = LocB -> "b1"

\* repository entries a manifest file may hold: without skills, or with the
\* locator's skill, its location written under either key
EntriesOf(repo_url, keys) ==
  {[repo |-> repo_url, rev |-> "main"]}
    \cup {[repo |-> repo_url, rev |-> "main", resolved_sha |-> FirstSha(repo_url),
           skills |-> <<SkillOf(repo_url, key)>>] : key \in keys}

\* sequences of entries for pairwise distinct locators, and the manifests
\* that name LocA twice
ManifestsOver(keys) ==
  LET entries == UNION {EntriesOf(l, keys) : l \in Locators}
      distinct(q) == \A i, j \in 1..Len(q) : q[i]["repo"] = q[j]["repo"] => i = j
  IN {[version |-> 1, agents |-> AgentsRaw]}
       \cup UNION {{[version |-> 1, agents |-> AgentsRaw, repos |-> q] :
                      q \in {q \in [1..n -> entries] : distinct(q)}} : n \in 1..MaxRepos}
       \cup {[version |-> 1, agents |-> AgentsRaw, repos |-> <<e, e>>] :
               e \in EntriesOf(LocA, keys)}

\* a manifest whose two repositories each declare a skill named "s1"
SameNameManifest ==
  [version |-> 1, agents |-> AgentsRaw,
   repos |-> << [repo |-> LocA, rev |-> "main", skills |-> <<SkillOf(LocA, "path")>>],
                [repo |-> LocB, rev |-> "main",
                 skills |-> <<SkillDict("s1", "path", <<"y">>, <<"codex">>)>>] >>]

\* manifest files: the empty file, those whose skills give their location
\* under "path", and for each locator one that gives it under "location"
ManifestFiles ==
  {<<>>} \cup ManifestsOver({"path"}) \cup {SameNameManifest}
    \cup {[version |-> 1, agents |-> AgentsRaw,
           repos |-> <<[repo |-> l, rev |-> "main", skills |-> <<SkillOf(l, "location")>>]>>] :
            l \in Locators}

\* store directories that earlier runs may have left, oldest first
OldDirs ==
  << Dir(repo_id(LocA), FALSE, "a1", {<< <<"x">> >>}),
     Dir(repo_id(LocB), FALSE, "b1", {<< <<"y">> >>}),
     Dir(OrphanRoot, FALSE, "b1", {}),
     Dir(repo_id(LocA), TRUE, "a2", {}) >>

StoreOf(dirs) == [roots |-> {e.root : e \in dirs}, dirs |-> dirs]

\* the stores the model starts from
Stores == {StoreOf({OldDirs[i] : i \in 1..n}) : n \in 0..Len(OldDirs)}

\* what may be at the link paths: nothing, a link into an export the store
\* holds, or a plain file
LinksOver(st) ==
  {[at \in LinkPaths |-> IF at[2] = "s1" THEN l1 ELSE Absent] :
     l1 \in {Absent, PlainFile}
              \cup {Symlink(StorePath(e.root, e.sha, <<<<"x">>>>)) :
                      e \in {d \in st.dirs : ~d.tmp /\ <<<<"x">>>> \in d.tree}}}

NoPrev == [ok |-> FALSE, filter |-> NoFilter, force |-> FALSE,
           post |-> [manifest |-> <<>>, store |-> StoreOf({}), links |-> <<>>]]

\* No invocation has begun.
Init ==
  /\ manifest \in ManifestFiles
  /\ store \in Stores
  /\ links \in LinksOver(store)
  /\ pc = "idle"
  /\ config = <<>>
  /\ data = <<>>
  /\ repo_filter = NoFilter
  /\ force = FALSE
  /\ ri = 1
  /\ si = 1
  /\ created_dirs = <<>>
  /\ processed_repos = <<>>
  /\ failed_at = ""
  /\ pre = [manifest |-> manifest, store |-> store, links |-> links]
  /\ prev = NoPrev
  /\ runs = 0
  /\ ExportIdle
  /\ store_root = (store.roots # {})

\* The invocations of sync_config and sync_repo on a manifest file.  With the
\* configuration loaded through schema.py no repository entry reaches the
\* export (NoEntryHasSparsePaths), so the steps from sync.py:63 to sync.py:93
\* are no part of this next-state relation.
Next ==
  \/ \E filter \in Filters, frc \in BOOLEAN : StartSync(filter, frc)
  \/ LoopEnd
  \/ SkipFiltered
  \/ SkipNoPaths
  \/ Cleanup
  \/ CleanupFail
  \/ Persist
  \/ Write
  \/ WriteFail
  \/ Rollback
  \/ Return

Spec == Init /\ [][Next]_vars

\* ------------------------------------------------------------------------
\* _sync_body on the mappings it reads
\* ------------------------------------------------------------------------

\* sync.py:80 and sync.py:121 read a skill's location from the key
\* "location", the key cli.py:218 writes.  BodyInit is the state at sync.py:51
\* for the repository mappings of ManifestsOver({"location"}): those
\* config.to_dict() returns for a manifest that declares no skill, and those
\* with skills whose location is under the key the body reads.
Rekeyed(skill) ==
  IF "location" \in DOMAIN skill
  THEN [path |-> skill["location"]] @@ Pick(skill, {"name", "agents"})
  ELSE skill

AsLoaded(raw) ==
  [raw EXCEPT !.repos =
     [i \in 1..Len(raw.repos) |->
        IF "skills" \in DOMAIN raw.repos[i]
        THEN [raw.repos[i] EXCEPT !.skills = [j \in 1..Len(@) |-> Rekeyed(@[j])]]
        ELSE raw.repos[i]]]

BodyManifests ==
  {m \in ManifestsOver({"location"}) : "repos" \in DOMAIN m /\ root_ok(AsLoaded(m))}

\* more of what earlier runs may have left: an export of LocA2's repository
\* and a second export of LocB's
BodyDirs ==
  OldDirs \o << Dir(repo_id(LocA2), FALSE, "c1", {<<>>}),
                Dir(repo_id(LocB), FALSE, "b2", {}) >>

BodyStores == {StoreOf({BodyDirs[i] : i \in 1..n}) : n \in 0..Len(BodyDirs)}

\* at the link path of s1: nothing, a link into an export of the store, a
\* plain file or a non-empty directory
BodyLinksOver(st) ==
  {[at \in LinkPaths |-> IF at[2] = "s1" THEN l1 ELSE Absent] :
     l1 \in {Absent, PlainFile, FullDir}
              \cup {Symlink(StorePath(e.root, e.sha, <<<<"x">>>>)) :
                      e \in {d \in st.dirs : ~d.tmp /\ <<<<"x">>>> \in d.tree}}}

BodyInit ==
  /\ manifest \in BodyManifests
  /\ store \in BodyStores
  /\ links \in BodyLinksOver(store)
  /\ pc = "loop"
  /\ config = root_from_dict(AsLoaded(manifest))
  /\ data = [store_dir |-> DEFAULT_STORE_DIR] @@ manifest
  /\ repo_filter \in Filters
  /\ force \in BOOLEAN
  /\ ri = 1
  /\ si = 1
  /\ created_dirs = <<>>
  /\ processed_repos = <<>>
  /\ failed_at = ""
  /\ pre = [manifest |-> manifest, store |-> store, links |-> links]
  /\ prev = NoPrev
  /\ runs = MaxRuns
  /\ ExportIdle
  /\ store_root = TRUE

BodyNext ==
  \/ LoopEnd
  \/ SkipFiltered
  \/ SkipNoPaths
  \/ \E sha \in Shas : Export(sha)
  \/ \E sha \in Shas, how \in {"git", "copy"} : ExportFail(sha, how)
  \/ SkillsEnd
  \/ VerifyAndLink
  \/ Cleanup
  \/ CleanupFail
  \/ Persist
  \/ Write
  \/ WriteFail
  \/ Rollback

SpecBody == BodyInit /\ [][BodyNext]_vars

\* ------------------------------------------------------------------------
\* _sync_body with the pruning pass of an overlapping run
\* ------------------------------------------------------------------------

\* sync.py:63-76 in another full sync of the same manifest: its exports are
\* in the store and its processed_repos names the identifiers it resolved
RECURSIVE other_exports(_, _, _)
other_exports(st, entries, resolved) ==
  IF entries = <<>> THEN st
  ELSE LET paths == collect_sparse_paths(entries[1])
           root == repo_id(entries[1]["repo"])
       IN IF paths = <<>> THEN other_exports(st, Tail(entries), resolved)
          ELSE other_exports(export_sparse_repo(st, root, resolved[root], paths).store,
                             Tail(entries), resolved)

\* the identifiers another run may have resolved for the entries that have
\* sparse paths
OtherProcessed ==
  LET idx == {i \in 1..Len(Repos) : collect_sparse_paths(Repos[i]) # <<>>}
      roots == {repo_id(Repos[i]["repo"]) : i \in idx}
  IN {f \in [roots -> Shas] :
        \A i \in idx : f[repo_id(Repos[i]["repo"])] \in Resolutions(Repos[i]["repo"])}

\* sync.py:95-100 in the other run, while this run stands between its loop
\* and its own pruning pass: the other run has exported and linked before
\* this run linked, and prunes now
OtherPrune(resolved) ==
  /\ pc = "prune"
  /\ call = NoCall
  /\ store' = cleanup_store(other_exports(store, Repos, resolved), resolved, NoFilter)
  /\ call' = [op |-> "other_prune", processed_repos |-> resolved]
  /\ UNCHANGED <<manifest, links, pc, config, data, repo_filter, force, ri, si,
                 created_dirs, processed_repos, failed_at, pre, prev, runs,
                 xvars, tmpfile, store_root>>

OverlapInit == BodyInit

OverlapNext == BodyNext \/ \E resolved \in OtherProcessed : OtherPrune(resolved)

SpecOverlap == OverlapInit /\ [][OverlapNext]_vars

\* ------------------------------------------------------------------------
\* The linker alone
\* ------------------------------------------------------------------------

\* skill directories the linker is called for: two that exist in LinkStore
\* and one whose export is missing
LinkTargets ==
  {StorePath(repo_id(LocA), "a1", << <<"x">> >>),
   StorePath(repo_id(LocB), "b1", << <<"y">> >>),
   StorePath(repo_id(LocA), "a2", << <<"x">> >>)}

LinkStore == StoreOf({OldDirs[1], OldDirs[2]})

\* what may be at a link path
LinkStates ==
  {Absent, PlainFile, EmptyDir, FullDir} \cup {Symlink(t) : t \in LinkTargets}

LinkInit ==
  /\ manifest = <<>>
  /\ store = LinkStore
  /\ links \in [LinkPaths -> LinkStates]
  /\ pc = "idle"
  /\ config = <<>>
  /\ data = <<>>
  /\ repo_filter = NoFilter
  /\ force = FALSE
  /\ ri = 1
  /\ si = 1
  /\ created_dirs = <<>>
  /\ processed_repos = <<>>
  /\ failed_at = ""
  /\ pre = [manifest |-> manifest, store |-> store, links |-> links]
  /\ prev = NoPrev
  /\ runs = MaxRuns
  /\ ExportIdle
  /\ store_root = TRUE

\* sync.py:240-259  one call _ensure_symlink(link_path, target, force=frc)
LinkCall(at, target, frc) ==
  /\ pc = "idle"
  /\ LET r == ensure_symlink(links[at], store, target, frc) IN
       /\ links' = [links EXCEPT ![at] = r.link]
       /\ call' = [op |-> "ensure_symlink", at |-> at, target |-> target,
                   force |-> frc, before |-> links[at], ok |-> r.ok,
                   error |-> ensure_symlink_error(at, links[at], store, target, frc),
                   wrote |-> ensure_symlink_writes(links[at], store, target, frc)]
  /\ UNCHANGED <<svars_but_links, xvars, tmpfile, store_root>>

LinkNext ==
  \E at \in LinkPaths, target \in LinkTargets, frc \in BOOLEAN : LinkCall(at, target, frc)

SpecLink == LinkInit /\ [][LinkNext]_vars

\* ------------------------------------------------------------------------
\* The export alone
\* ------------------------------------------------------------------------

\* No sync invocation is modelled beside the export.
SyncIdle ==
  /\ manifest = <<>>
  /\ store = StoreOf({})
  /\ links = [at \in LinkPaths |-> Absent]
  /\ pc = "idle"
  /\ config = <<>>
  /\ data = <<>>
  /\ repo_filter = NoFilter
  /\ force = FALSE
  /\ ri = 1
  /\ si = 1
  /\ created_dirs = <<>>
  /\ processed_repos = <<>>
  /\ failed_at = ""
  /\ pre = [manifest |-> manifest, store |-> store, links |-> links]
  /\ prev = NoPrev
  /\ runs = MaxRuns

\* The final path is absent or holds a complete export; the temporary
\* directory is absent or holds what a killed run left.
ExportInit ==
  /\ SyncIdle
  /\ call = NoCall
  /\ tmpfile = NoFile
  /\ store_root = TRUE
  /\ xdest \in {NoTree, Tree(Files)}
  /\ xtemp \in {NoTree} \cup {Tree(1..n) : n \in 0..NumFiles}
  /\ xpc = [p \in Procs |-> "off"]
  /\ xi = [p \in Procs |-> 1]
  /\ xerr = [p \in Procs |-> FALSE]
  /\ xseen = [p \in Procs |-> {}]
  /\ xwork = [p \in Procs |-> FALSE]

XStep(p) ==
  \/ XCheckDest(p)
  \/ XCheckTemp(p)
  \/ XRmTemp(p)
  \/ XMkdir(p)
  \/ XCopy(p)
  \/ XCopyError(p)
  \/ XRename(p)
  \/ XFinally(p)

\* Runs one after the other, each of which may be killed at any point.
InterruptNext == \E p \in Procs : XStart(p, TRUE) \/ XStep(p) \/ XKill(p)

SpecInterrupt == ExportInit /\ [][InterruptNext]_vars

\* Runs that overlap; none is killed.
ConcurrentNext == \E p \in Procs : XStart(p, FALSE) \/ XStep(p)

SpecConcurrent == ExportInit /\ [][ConcurrentNext]_vars

\* ------------------------------------------------------------------------
\* The commands that edit the manifest file: init_config and install
\* ------------------------------------------------------------------------

\* config.py:11-21
default_config ==
  [version |-> 1,
   store_dir |-> DEFAULT_STORE_DIR,
   agents |-> [codex |-> [target_dir |-> ".codex/skills"],
               claude |-> [target_dir |-> ".claude/skills"],
               opencode |-> [target_dir |-> ".opencode/skills"]],
   repos |-> <<>>]

\* an init_config that overwrites whatever is there: what C18 tells apart
init_never_refuses(file, overwrite) == FALSE

\* config.py:26  target.exists() and not overwrite
init_refuses(file, overwrite) == file # NoFile /\ ~overwrite

\* config.py:24-30  init_config(path, overwrite=overwrite); `written` is
\* whether handle.write of config.py:65 completes after the open of
\* config.py:64 has truncated the file
InitConfig(overwrite, written) ==
  /\ pc = "idle"
  /\ IF init_refuses(manifest, overwrite)
     THEN /\ manifest' = manifest
          /\ call' = [op |-> "init_config", overwrite |-> overwrite,
                      before |-> manifest, error |-> "ConfigError"]
     ELSE /\ manifest' = IF written THEN root_to_dict(default_config) ELSE <<>>
          /\ call' = [op |-> "init_config", overwrite |-> overwrite,
                      before |-> manifest,
                      error |-> IF written THEN "" ELSE "OSError"]
  /\ UNCHANGED <<store, links, pc, config, data, repo_filter, force, ri, si,
                 created_dirs, processed_repos, failed_at, pre, prev, runs,
                 xvars, tmpfile, store_root>>

\* cli.py:60-70  _ensure_repo_list
ensure_repo_list(d) == DictGet(d, "repos", <<>>)

\* cli.py:73-84  _ensure_skill_list
ensure_skill_list(entry) == DictGet(entry, "skills", <<>>)

Without(d, k) == Pick(d, DOMAIN d \ {k})

\* a reinstall that leaves the other declarations of the skill: what C17
\* tells apart
keep_skills_by_name(repos, skill_name) == repos

\* cli.py:87-102  _remove_skill_by_name
remove_skill_by_name(repos, skill_name) ==
  [i \in 1..Len(repos) |->
     IF "skills" \notin DOMAIN repos[i] THEN repos[i]
     ELSE LET filtered == SelectSeq(repos[i]["skills"],
                                    LAMBDA e : DictGet(e, "name", "") # skill_name)
          IN IF filtered # <<>>
             THEN [skills |-> filtered] @@ repos[i]
             ELSE Without(repos[i], "skills")]

\* cli.py:194-197  the index of the first entry of the repository, 0 for None
existing_index(repos, repo) ==
  IF \E i \in 1..Len(repos) : repos[i]["repo"] = repo
  THEN CHOOSE i \in 1..Len(repos) :
         /\ repos[i]["repo"] = repo
         /\ \A j \in 1..(i - 1) : repos[j]["repo"] # repo
  ELSE 0

\* an install that changes the revision and keeps the resolved identifier:
\* what C23 tells apart
install_repos_keeps_sha(repos, repo, rev, reinstall) ==
  LET idx == existing_index(repos, repo) IN
    IF idx = 0 THEN Append(repos, [repo |-> repo, rev |-> rev])
    ELSE [repos EXCEPT ![idx] = [rev |-> rev] @@ @]

\* cli.py:189-206  the list of entries once the repository has its entry
install_repos(repos, repo, rev, reinstall) ==
  IF reinstall
  THEN Append(SelectSeq(repos, LAMBDA item : item["repo"] # repo),
              [repo |-> repo, rev |-> rev])
  ELSE LET idx == existing_index(repos, repo) IN
         IF idx = 0 THEN Append(repos, [repo |-> repo, rev |-> rev])
         ELSE IF repos[idx]["rev"] # rev
         THEN [repos EXCEPT ![idx] = [rev |-> rev] @@ Without(@, "resolved_sha")]
         ELSE repos

\* cli.py:189-206  where `existing` sits in that list
install_index(repos, repo, reinstall) ==
  IF reinstall THEN Len(install_repos(repos, repo, "", TRUE))
  ELSE IF existing_index(repos, repo) = 0 THEN Len(repos) + 1
  ELSE existing_index(repos, repo)

\* cli.py:187-221  the mapping install hands to validation
install_data(d, repo, rev, skill, remote_location, agent, reinstall) ==
  LET repos == install_repos(ensure_repo_list(d), repo, rev, reinstall)
      idx == install_index(ensure_repo_list(d), repo, reinstall)
      cleared == IF reinstall THEN remove_skill_by_name(repos, skill) ELSE repos
      existing == cleared[idx]
      skills == Append(ensure_skill_list(existing),
                       [name |-> skill, location |-> remote_location, agents |-> agent])
  IN [repos |-> [cleared EXCEPT ![idx] = [skills |-> skills] @@ existing]] @@ d

\* cli.py:10, cli.py:182  load_config_data is imported from config.py, which
\* does not define it; it is taken to return the file's mapping as it is
load_config_data(file) == file

\* cli.py:177-186  whether install gets a mapping to edit: the manifest
\* loads, or --reinstall falls back to the unvalidated file
install_reads(file, reinstall) == root_ok(file) \/ (reinstall /\ file # NoFile)

install_loads(file) ==
  IF root_ok(file) THEN root_to_dict(root_from_dict(file)) ELSE load_config_data(file)

\* what sync_repo(temp_path, repo) may end with inside install (sync.py:104-111
\* re-raises whatever _sync_body raised; sync.py:332-346 turns the failures
\* of a git command into ConfigError)
SyncOutcomes == {"", "ConfigError", "OSError"}

\* cli.py:149-239  install: load, edit, then _save_validated (--no-sync) or
\* _write_temp_config, sync_repo and _replace_config; ConfigError alone is
\* caught at cli.py:232
Install(repo, rev, skill, remote_location, agent, reinstall, no_sync) ==
  /\ pc = "idle"
  /\ LET edited == install_data(install_loads(manifest), repo, rev, skill,
                                remote_location, agent, reinstall)
         args == [op |-> "install", repo |-> repo, rev |-> rev, skill |-> skill,
                  remote_location |-> remote_location, reinstall |-> reinstall,
                  no_sync |-> no_sync, before |-> manifest]
     IN IF ~install_reads(manifest, reinstall)
        THEN /\ call' = args @@ [edited |-> <<>>, temp_written |-> FALSE,
                                 synced |-> FALSE, error |-> "ConfigError"]
             /\ UNCHANGED <<manifest, tmpfile>>
        ELSE IF ~root_ok(edited)
        THEN \* cli.py:36, cli.py:42  RootConfig.from_dict(data) raises
             /\ call' = args @@ [edited |-> edited, temp_written |-> FALSE,
                                 synced |-> FALSE, error |-> "ConfigError"]
             /\ UNCHANGED <<manifest, tmpfile>>
        ELSE IF no_sync
        THEN \E written \in BOOLEAN :
               /\ manifest' = IF written THEN root_to_dict(root_from_dict(edited)) ELSE <<>>
               /\ call' = args @@ [edited |-> edited, temp_written |-> FALSE,
                                   synced |-> FALSE,
                                   error |-> IF written THEN "" ELSE "OSError"]
               /\ UNCHANGED tmpfile
        ELSE \E out \in SyncOutcomes :
               /\ manifest' = IF out = "" THEN root_to_dict(root_from_dict(edited))
                              ELSE manifest
               /\ tmpfile' = IF out = "OSError"
                             THEN [exists |-> TRUE,
                                   content |-> root_to_dict(root_from_dict(edited))]
                             ELSE NoFile
               /\ call' = args @@ [edited |-> edited, temp_written |-> TRUE,
                                   synced |-> TRUE, error |-> out]
  /\ UNCHANGED <<store, links, pc, config, data, repo_filter, force, ri, si,
                 created_dirs, processed_repos, failed_at, pre, prev, runs,
                 xvars, store_root>>

\* manifests the reinstall tests start from (two entries of one repository;
\* a skill declared under another repository, its location under
\* "location"), and one with both
ReinstallManifests ==
  { [version |-> 1,
     repos |-> << [repo |-> LocA, rev |-> "v1"], [repo |-> LocA, rev |-> "v2"] >>],
    [version |-> 1,
     repos |-> << [repo |-> LocA, rev |-> "main",
                   skills |-> <<SkillDict("s1", "location", <<"x">>, <<"codex">>)>>],
                  [repo |-> LocB, rev |-> "main"] >>],
    [version |-> 1, agents |-> AgentsRaw,
     repos |-> << [repo |-> LocB, rev |-> "v1",
                   skills |-> <<SkillDict("s2", "path", <<"y">>, <<"codex">>)>>],
                  [repo |-> LocA, rev |-> "main", resolved_sha |-> "a1",
                   skills |-> <<SkillDict("s1", "path", <<"x">>, <<"codex">>),
                                SkillDict("s2", "path", <<"k">>, <<"codex">>)>>],
                  [repo |-> LocB, rev |-> "v2"] >>] }

CliFiles == {NoFile} \cup ManifestFiles \cup ReinstallManifests

\* No command has run; no sync invocation is modelled beside the commands.
CliInit ==
  /\ manifest \in CliFiles
  /\ store = StoreOf({})
  /\ links = [at \in LinkPaths |-> Absent]
  /\ pc = "idle"
  /\ config = <<>>
  /\ data = <<>>
  /\ repo_filter = NoFilter
  /\ force = FALSE
  /\ ri = 1
  /\ si = 1
  /\ created_dirs = <<>>
  /\ processed_repos = <<>>
  /\ failed_at = ""
  /\ pre = [manifest |-> manifest, store |-> store, links |-> links]
  /\ prev = NoPrev
  /\ runs = MaxRuns
  /\ ExportIdle
  /\ store_root = FALSE

CliNext ==
  \/ \E overwrite \in BOOLEAN, written \in BOOLEAN : InitConfig(overwrite, written)
  \/ \E repo \in {LocA, LocB}, rev \in {"main", "v3"}, skill \in {"s1", "s2"},
        remote_location \in {<<"x">>, <<".">>}, reinstall \in BOOLEAN,
        no_sync \in BOOLEAN :
       Install(repo, rev, skill, remote_location, <<"codex">>, reinstall, no_sync)

SpecCli == CliInit /\ [][CliNext]_vars

\* ------------------------------------------------------------------------
\* _normalize_skill_path alone
\* ------------------------------------------------------------------------

\* locations a skill may be declared with: a directory part, a last segment,
\* with or without a leading blank and a trailing slash
LocationDirs == {<<>>, <<"x">>, <<"d">>, <<"x", "/", "y">>, <<"d", "/", "s">>}
LocationLasts ==
  {<<>>, <<".">>, <<"k">>, SKILL_MD, <<"S", "K", "I", "L", "L", ".", "M", "D">>, skill_md,
   <<"m", "y">> \o skill_md, <<"m", "y">> \o SKILL_MD}
Locations ==
  {lead \o (IF d = <<>> \/ l = <<>> THEN d \o l ELSE d \o <<"/">> \o l) \o trail :
     lead \in {<<>>, <<" ">>}, d \in LocationDirs, l \in LocationLasts,
     trail \in {<<>>, <<"/">>}}

NormalizeInit ==
  /\ SyncIdle
  /\ ExportIdle
  /\ store_root = FALSE

\* sync.py:80-81  skill_root = _normalize_skill_path(location) and the
\* directory worktree / skill_root, as its segments below the export
NormalizeCall(value) ==
  /\ pc = "idle"
  /\ call' = [op |-> "normalize_skill_path", value |-> value,
              skill_root |-> normalize_skill_path(value),
              skill_path |-> Segments(normalize_skill_path(value))]
  /\ UNCHANGED <<svars, xvars, tmpfile, store_root>>

NormalizeNext == \E value \in Locations : NormalizeCall(value)

SpecNormalize == NormalizeInit /\ [][NormalizeNext]_vars

\* ------------------------------------------------------------------------
\* _collect_sparse_paths alone
\* ------------------------------------------------------------------------

\* sync.py:58  sparse_paths = _collect_sparse_paths(repo_entry) for an entry
\* with one skill at any of Locations, or with two skills at a few of them
SparseCall(locations) ==
  /\ pc = "idle"
  /\ LET entry == [repo |-> LocA, rev |-> "main",
                   skills |-> [i \in 1..Len(locations) |->
                                 SkillDict(IF i = 1 THEN "s1" ELSE "s2", "location",
                                           locations[i], <<"codex">>)]]
     IN call' = [op |-> "collect_sparse_paths", repo_entry |-> entry,
                 sparse_paths |-> collect_sparse_paths(entry)]
  /\ UNCHANGED <<svars, xvars, tmpfile, store_root>>

SparseNext ==
  \/ \E l \in Locations : SparseCall(<<l>>)
  \/ \E l1, l2 \in {<<>>, <<".">>, <<"x">>, <<"x", "/">> \o SKILL_MD, <<"d", "/", "s">>} :
       SparseCall(<<l1, l2>>)

SpecSparse == NormalizeInit /\ [][SparseNext]_vars

\* ------------------------------------------------------------------------
\* The git commands of the exports of one run
\* ------------------------------------------------------------------------

\* sync.py:159-194  the commands of one export, in the order they are issued
GitCommands ==
  <<"init", "remote add", "sparse-checkout init", "sparse-checkout set", "fetch",
    "checkout", "rev-parse">>

\* sync.py:192  capture_output=True is passed for rev-parse alone
captures(cmd) == cmd = "rev-parse"

\* what a command may end with: exit status 0, no git binary
\* (FileNotFoundError), or a non-zero exit status with what git wrote to its
\* standard error
GitOutcomes ==
  {[kind |-> "ok"], [kind |-> "missing"]}
    \cup {[kind |-> "exit", status |-> st, stderr |-> text] :
            st \in {"1", "128"},
            text \in {<<>>, <<" ">>, <<"f", "a", "t", "a", "l">>}}

\* sync.py:342-346  the ConfigError _run raises: exc.stderr is None unless
\* the output was captured, and str(exc) names the exit status
run_error(cmd, outcome) ==
  IF outcome.kind = "missing" THEN [prefix |-> "Command not found", cmd |-> "git"]
  ELSE [prefix |-> "Command failed", cmd |-> cmd,
        text |-> IF captures(cmd) /\ outcome.stderr # <<>>
                 THEN Strip(outcome.stderr)
                 ELSE <<"exit status", outcome.status>>]

\* sync.py:332-346  _run issues the next command of the export of the next
\* repository entry of the run; nothing follows a command that raised
GitRun(outcome) ==
  /\ pc = "idle"
  /\ LET issued == IF call = NoCall THEN <<>> ELSE call.issued
         entry == (Len(issued) \div Len(GitCommands)) + 1
         cmd == GitCommands[(Len(issued) % Len(GitCommands)) + 1]
     IN /\ call # NoCall => call.error = <<>>
        /\ entry <= MaxRepos
        /\ call' = [op |-> "git", issued |-> Append(issued, <<entry, cmd>>),
                    outcome |-> outcome,
                    error |-> IF outcome.kind = "ok" THEN <<>>
                              ELSE run_error(cmd, outcome)]
  /\ UNCHANGED <<svars, xvars, tmpfile, store_root>>

GitNext == \E outcome \in GitOutcomes : GitRun(outcome)

SpecGit == NormalizeInit /\ [][GitNext]_vars

\* What keeps install from writing anything: the skill it appends carries its
\* location under "location" (cli.py:218), RootConfig.from_dict requires
\* "path" (schema.py:122), so _save_validated and _write_temp_config raise
\* ConfigError at their first line.
InstallNeverValidates ==
  call.op = "install" => call.error = "ConfigError" /\ manifest = call.before

\* What keeps the export out of Next: the entries of a loaded configuration
\* carry their skills' locations under "path" (schema.py:132-139), the engine
\* reads "location" (sync.py:121), and every entry is skipped at sync.py:59.
NoEntryHasSparsePaths ==
  pc = "loop" => \A i \in 1..Len(Repos) : collect_sparse_paths(Repos[i]) = <<>>

\* ------------------------------------------------------------------------
\* What the engine's steps do by themselves
\* ------------------------------------------------------------------------

\* sync.py:95-101  a run that fails before config.py:64 opens the manifest
\* file leaves the file as it was
FailureBeforeWriteKeepsManifest ==
  (pc = "failed" /\ failed_at # "write") => manifest = pre.manifest

\* sync.py:276-277  once _cleanup_store has returned, the subtree of every
\* repository in processed_repos holds the export it resolved to and nothing
\* else
CleanupKeepsResolvedOnly ==
  pc \in {"persist", "write", "done"} =>
    \A r \in DOMAIN processed_repos :
      /\ DirExists(store, r, FALSE, processed_repos[r])
      /\ \A e \in store.dirs : e.root = r => (~e.tmp /\ e.sha = processed_repos[r])

\* ------------------------------------------------------------------------
\* The claims
\* ------------------------------------------------------------------------

\* C1: when a sync invocation has failed, at whatever step, the manifest file
\* holds what it held when the invocation began.
C1_ManifestUnchangedOnFailure == pc = "failed" => manifest = pre.manifest

\* C2: the rollback of a failed run removes every export the run created and
\* nothing else: each directory it removes is an export recorded in
\* created_dirs that did not exist when the run began, and no subtree goes.
C2_RollbackRemovesExactlyCreated ==
  [][(pc = "rollback" /\ pc' = "failed") =>
       /\ \A i \in 1..Len(created_dirs) :
            ~DirExists(store', created_dirs[i].root, FALSE, created_dirs[i].sha)
       /\ store'.roots = store.roots
       /\ store'.dirs \subseteq store.dirs
       /\ \A e \in store.dirs \ store'.dirs :
            /\ ~e.tmp
            /\ \E i \in 1..Len(created_dirs) :
                 created_dirs[i] = [root |-> e.root, sha |-> e.sha]
            /\ ~DirExists(pre.store, e.root, FALSE, e.sha)]_vars

\* C2, its case: the second repository failed verification, the export the
\* run created for the first is gone and an older export beside it is kept.
C2_Witness ==
  /\ pc = "failed"
  /\ failed_at = "verify"
  /\ ri = 2
  /\ created_dirs # <<>>
  /\ \A i \in 1..Len(created_dirs) :
       ~DirExists(store, created_dirs[i].root, FALSE, created_dirs[i].sha)
  /\ \E e \in pre.store.dirs :
       ~e.tmp /\ e.root = created_dirs[1].root /\ e \in store.dirs

\* C3: at the end of a failed run every symlink that resolved when the run
\* began, or that the run re-pointed, resolves to a directory of the store.
C3_NoLinkDanglesAfterFailure ==
  pc = "failed" =>
    \A at \in LinkPaths :
      (/\ links[at].kind = "symlink"
       /\ (links[at] # pre.links[at] \/ IsDir(pre.store, links[at].to)))
        => IsDir(store, links[at].to)

C5_NoOrphanSubtreeAfterFullSync ==
  (pc = "done" /\ repo_filter.all) =>
    \A r \in store.roots : \E i \in 1..Len(Repos) : r = repo_id(Repos[i]["repo"])

\* C5, its case: a full sync succeeded on a manifest with repositories and a
\* store that held the subtree of a repository the manifest does not name.
C5_Witness ==
  /\ pc = "done"
  /\ repo_filter.all
  /\ Len(Repos) > 0
  /\ OrphanRoot \in pre.store.roots
  /\ OrphanRoot \notin store.roots

\* C6: throughout a sync filtered to one repository, and so at its end,
\* failed or not, every store subtree but that repository's is what it was
\* when the run began.
C6_FilteredSyncLeavesOtherSubtrees ==
  ~repo_filter.all =>
    \A r \in (store.roots \cup pre.store.roots) \ {repo_id(l) : l \in repo_filter.repos} :
      /\ r \in store.roots
      /\ r \in pre.store.roots
      /\ {e \in store.dirs : e.root = r} = {e \in pre.store.dirs : e.root = r}

\* C6, its case: a filtered run has exported and pruned in its own subtree
\* while another subtree holds a temporary directory and a third belongs to no
\* repository of the manifest.
C6_Witness ==
  /\ ~repo_filter.all
  /\ pc = "failed"
  /\ processed_repos # <<>>
  /\ store # pre.store
  /\ OrphanRoot \in store.roots
  /\ \E e \in store.dirs : e.tmp /\ e.root \notin DOMAIN processed_repos

C8_FinalPathAbsentOrComplete ==
  /\ xdest.exists => xdest.files = Files
  /\ \A p \in Procs :
       /\ xpc[p] \in {"reused", "created"} => xseen[p] = Files
       /\ xpc[p] = "copy" =>
            /\ xtemp.exists /\ xtemp.files \subseteq 1..(xi[p] - 1)
            /\ ~xerr[p] => xtemp.files = 1..(xi[p] - 1)

\* C8, its case: a run was killed during its copy and the run after it
\* exported the complete tree.
C8_Witness ==
  \E p, q \in Procs :
    /\ xpc[p] = "killed"
    /\ xi[p] > 1
    /\ xpc[q] = "created"
    /\ xdest = Tree(Files)

\* C9: with runs that export the same identifier at the same time, the final
\* path never holds part of the tree and no run finds part of the tree there.
C9_NoRunSeesPartialTree ==
  \A p \in Procs :
    /\ xdest.files \in {{}, Files} \/ ~xdest.exists
    /\ xpc[p] = "reused" => xseen[p] = Files

\* C10: after a successful sync, for every repository in scope, every skill
\* it declares and every agent of the skill with a target directory, the link
\* named after the skill points at the directory of the declared location in
\* the export of the persisted identifier, and that directory exists.
C10_EveryDeclaredSkillLinked ==
  pc = "done" =>
    \A i \in 1..Len(DictGet(manifest, "repos", <<>>)) :
      LET entry == manifest["repos"][i]
          skills == DictGet(entry, "skills", <<>>)
      IN ~Filtered(entry) =>
           \A j \in 1..Len(skills) :
             LET agents == DictGet(skills[j], "agents", <<>>)
                 declared == DictGet(skills[j], "path", DictGet(skills[j], "location", <<>>))
                 target == StorePath(repo_id(entry["repo"]),
                                     DictGet(entry, "resolved_sha", ""),
                                     Segments(normalize_skill_path(declared)))
             IN \A k \in 1..Len(agents) :
                  LET target_cfg == DictGet(manifest["agents"], agents[k], <<>>) IN
                    "target_dir" \in DOMAIN target_cfg =>
                      /\ links[<<target_cfg["target_dir"], skills[j]["name"]>>] = Symlink(target)
                      /\ IsDir(store, target)

\* C11: when the destination is neither a link nor absent and the target is a
\* directory: without force the call fails with the error that names the
\* destination and leaves it as it is; with force a non-empty directory makes
\* it fail and stays, an empty directory or a plain file is replaced by the
\* link.  No call, whatever its arguments, changes a non-empty directory.
C11_NonLinkDestination ==
  [][/\ \A p \in LinkPaths : links[p].kind = "fulldir" => links'[p] = links[p]
     /\ (/\ call'.op = "ensure_symlink"
         /\ links[call'.at].kind \in {"file", "emptydir", "fulldir"}
         /\ IsDir(store, call'.target)) =>
          IF ~call'.force
          THEN /\ ~call'.ok
               /\ call'.error = [kind |-> "exists", path |-> call'.at]
               /\ links' = links
          ELSE IF links[call'.at].kind = "fulldir"
               THEN /\ ~call'.ok
                    /\ call'.error = [kind |-> "nonempty", path |-> call'.at]
                    /\ links' = links
               ELSE /\ call'.ok
                    /\ links' = [links EXCEPT ![call'.at] = Symlink(call'.target)]]_vars

\* C11, its case: a forced call has replaced an empty directory by the link
\* while a non-empty directory sits at another destination.
C11_Witness ==
  /\ call.op = "ensure_symlink"
  /\ call.force
  /\ call.before.kind = "emptydir"
  /\ call.ok
  /\ links[call.at] = Symlink(call.target)
  /\ \E p \in LinkPaths : links[p].kind = "fulldir"

\* C12: when the destination is a symlink and the target is a directory, the
\* call succeeds with or without force; it writes nothing when the link
\* points at the target and replaces the link when it points elsewhere, a
\* missing directory included.  After every successful call the destination
\* is a symlink to the target.
C12_SymlinkDestination ==
  call.op = "ensure_symlink" =>
    /\ call.ok => links[call.at] = Symlink(call.target)
    /\ (call.before.kind = "symlink" /\ IsDir(store, call.target)) =>
         /\ call.ok
         /\ call.wrote = (call.before.to # call.target)

\* C12, its case: a call without force has replaced a link that pointed into
\* an export the store does not hold.
C12_Witness ==
  /\ call.op = "ensure_symlink"
  /\ ~call.force
  /\ call.before.kind = "symlink"
  /\ ~IsDir(store, call.before.to)
  /\ call.ok
  /\ call.wrote
  /\ links[call.at] = Symlink(call.target)

\* C13: a link changes only in the step of a skill whose SKILL.md is in the
\* resolved export; when it is missing the step raises and changes no link,
\* and from then on the run only rolls back: no link, no pruning, no write of
\* the manifest.
C13_VerifyBeforeLink ==
  [][/\ links' # links =>
          (pc = "skills" /\ si <= Len(EntrySkills) /\ HasSkillMd(store, SkillPath))
     /\ (pc = "skills" /\ si <= Len(EntrySkills) /\ ~HasSkillMd(store, SkillPath)) =>
          (failed_at' = "verify" /\ pc' = "rollback" /\ links' = links /\ store' = store)
     /\ failed_at = "verify" =>
          /\ pc = "rollback"
          /\ pc' = "failed"
          /\ links' = links
          /\ manifest' = manifest
          /\ store'.roots = store.roots
          /\ \A e \in store.dirs \ store'.dirs :
               \E i \in 1..Len(created_dirs) :
                 created_dirs[i] = [root |-> e.root, sha |-> e.sha] /\ ~e.tmp]_vars

\* C13, its case: the skill of the first repository was linked, SKILL.md of
\* the second repository's skill was missing, and the run has ended without a
\* link for that skill and with the manifest it began with.
C13_Witness ==
  /\ pc = "failed"
  /\ failed_at = "verify"
  /\ ri = 2
  /\ links # pre.links
  /\ links[<<CODEX_DIR, Skill["name"]>>] = Absent
  /\ "codex" \in SeqToSet(DictGet(Skill, "agents", <<>>))
  /\ manifest = pre.manifest

\* C14: a sync of a manifest in which two repositories declare a skill of the
\* same name fails while loading: the store directory is not created, nothing
\* is exported, store and links are untouched and the manifest file is what
\* it was.
C14_DuplicateNameRejectedFirst ==
  LET repos == DictGet(pre.manifest, "repos", <<>>)
      names(i) == {DictGet(repos[i], "skills", <<>>)[j]["name"] :
                     j \in 1..Len(DictGet(repos[i], "skills", <<>>))}
  IN (/\ pc # "idle"
      /\ \E i, j \in 1..Len(repos) : i # j /\ names(i) \cap names(j) # {}) =>
       /\ pc = "failed"
       /\ failed_at = "load"
       /\ Snapshot = pre
       /\ created_dirs = <<>>
       /\ processed_repos = <<>>
       /\ store_root = (store.roots # {})

\* C14, its case: the sync of the manifest with two skills named "s1" has
\* failed, over a store directory that does not exist and a link that does.
C14_Witness ==
  /\ pc = "failed"
  /\ failed_at = "load"
  /\ pre.manifest = SameNameManifest
  /\ ~store_root
  /\ \E at \in LinkPaths : links[at].kind # "absent"

\* C15: at every point of a sync invocation the manifest file holds either
\* the content it had when the invocation began or the complete updated
\* content.
C15_ManifestNeverPartial ==
  pc # "idle" =>
    \/ manifest = pre.manifest
    \/ (root_ok(data) /\ manifest = root_to_dict(root_from_dict(data)))

\* C16: an install with sync enabled, given a manifest that loads, a skill
\* name the manifest does not declare yet and a relative location, writes the
\* edited manifest to a temporary file and runs the sync of the repository
\* against it; the manifest file changes only when that sync succeeded, and
\* when it failed the manifest file is as before and no temporary file
\* remains.
C16_InstallSyncsTemporaryManifest ==
  (/\ call.op = "install"
   /\ ~call.no_sync
   /\ root_ok(call.before)
   /\ call.skill \notin SeqToSet(all_skill_names(DictGet(call.before, "repos", <<>>)))
   /\ relpath_ok(call.remote_location))
  => /\ call.temp_written
     /\ call.synced
     /\ (manifest # call.before => call.error = "")
     /\ (call.error # "" => manifest = call.before /\ tmpfile = NoFile)

C18_InitRefusesExistingFile ==
  call.op = "init_config" =>
    /\ (call.before # NoFile /\ ~call.overwrite) =>
         (call.error = "ConfigError" /\ manifest = call.before)
    /\ call.error = "" =>
         /\ call.before = NoFile \/ call.overwrite
         /\ manifest = root_to_dict(default_config)

\* C18 witness: init_config without overwrite has been refused on a manifest
\* that declares repositories.
C18_Witness ==
  /\ call.op = "init_config" /\ ~call.overwrite
  /\ "repos" \in DOMAIN call.before
  /\ call.error = "ConfigError"
  /\ manifest = call.before

\* C19: the directory a skill is looked for in is, surrounding blanks of the
\* declared location aside, the parent directory when the location ends in
\* "/SKILL.md", the root of the export when the location is "." or empty, and
\* the location itself otherwise.
C19_EffectiveSkillDirectory ==
  call.op = "normalize_skill_path" =>
    LET location == Strip(call.value)
        tail == <<"/">> \o SKILL_MD
    IN call.skill_path =
         IF EndsWith(location, tail)
         THEN Segments(SubSeq(location, 1, Len(location) - Len(tail)))
         ELSE IF location \in {<<>>, <<".">>} THEN <<>>
         ELSE Segments(location)

\* C20: when a full sync has succeeded, every export the store held at its
\* start and no longer holds belonged to a repository the manifest no longer
\* declares, or to one the run resolved to another identifier.
C20_DeclaredExportRetained ==
  (pc = "done" /\ repo_filter.all) =>
    \A d \in pre.store.dirs :
      (~d.tmp /\ ~DirExists(store, d.root, FALSE, d.sha)) =>
        \/ \A i \in 1..Len(Repos) : repo_id(Repos[i]["repo"]) # d.root
        \/ (d.root \in DOMAIN processed_repos /\ processed_repos[d.root] # d.sha)

\* C21: in every step of a sync invocation: the repository entries are taken
\* in manifest order, an entry's skills are checked and linked only once its
\* export is resolved; pruning begins only when the loop over the entries is
\* exhausted with no error, and no export is removed from the store before
\* that, save by the rollback; persisting begins only after pruning and the
\* manifest file changes only then; once a step has raised, the rollback
\* follows, then the failure, and the invocation never ends as done.
C21_StepOrder ==
  [][ /\ ri' \in {ri, ri + 1} \/ pc' = "idle"
      /\ pc' = "skills" => /\ pc \in {"loop", "skills"}
                           /\ EntryRoot \in DOMAIN processed_repos'
      /\ links' # links => pc = "skills" /\ EntryRoot \in DOMAIN processed_repos
      /\ (pc' = "prune" /\ pc # "prune") =>
           (pc = "loop" /\ ri > Len(Repos) /\ failed_at = "")
      /\ (\E d \in store.dirs : ~d.tmp /\ d \notin store'.dirs) =>
           pc \in {"prune", "rollback"}
      /\ (pc' = "persist" /\ pc # "persist") => pc = "prune"
      /\ manifest' # manifest => pc \in {"persist", "write"}
      /\ (failed_at' # "" /\ failed_at = "") => pc' = "rollback"
      /\ pc = "rollback" => pc' = "failed"
      /\ failed_at # "" => (pc' \in {"rollback", "failed"} /\ failed_at' = failed_at)
    ]_vars

\* C21 witness: a run has linked a skill, pruned an export the store held at
\* its start, failed in persisting, rolled back and ended as failed.
C21_Witness ==
  /\ pc = "failed"
  /\ failed_at = "persist"
  /\ links # pre.links
  /\ \E d \in pre.store.dirs : ~d.tmp /\ d \notin store.dirs

\* C22: the sparse paths of a repository entry hold, for every declared
\* skill with effective directory L, the patterns L/SKILL.md, L/references/**
\* and L/scripts/** (without prefix when L is the root of the repository),
\* each pattern once and in the order of first occurrence; an entry that
\* declares a skill has sparse paths.
C22_SparsePathsOfEverySkill ==
  call.op = "collect_sparse_paths" =>
    LET skills == call.repo_entry["skills"]
        paths == call.sparse_paths
        L(i) == Segments(normalize_skill_path(skills[i]["location"]))
        base(i) == IF L(i) = <<>> THEN <<>> ELSE JoinSlash(L(i)) \o <<"/">>
        wanted(i) == << base(i) \o SKILL_MD, base(i) \o REFERENCES_GLOB,
                        base(i) \o SCRIPTS_GLOB >>
        all == [k \in 1..(3 * Len(skills)) |-> wanted(((k - 1) \div 3) + 1)[((k - 1) % 3) + 1]]
        firsts == {k \in 1..Len(all) : \A m \in 1..(k - 1) : all[m] # all[k]}
    IN /\ Len(paths) = Cardinality(firsts)
       /\ \A k \in firsts : paths[Cardinality({m \in firsts : m <= k})] = all[k]
       /\ skills # <<>> => paths # <<>>

\* the entries of the repository install was called for, in the mapping it
\* read and in the mapping it built
C23_Before == SelectSeq(ensure_repo_list(install_loads(call.before)),
                        LAMBDA e : e["repo"] = call.repo)
C23_After == SelectSeq(call.edited["repos"], LAMBDA e : e["repo"] = call.repo)

\* C23 as stated: in the manifest install builds, the entry of the repository
\* has no resolved identifier when the revision of an earlier entry of the
\* repository differs from the one installed, and has the earlier entry's
\* resolved identifier when the revision is the same, --reinstall or not.
C23_ResolvedFollowsRevision ==
  (call.op = "install" /\ call.edited # <<>>) =>
    \A i \in 1..Len(C23_Before), j \in 1..Len(C23_After) :
      /\ C23_Before[i]["rev"] # call.rev => "resolved_sha" \notin DOMAIN C23_After[j]
      /\ (C23_Before[i]["rev"] = call.rev /\ "resolved_sha" \in DOMAIN C23_Before[i])
           => (/\ "resolved_sha" \in DOMAIN C23_After[j]
               /\ C23_After[j]["resolved_sha"] = C23_Before[i]["resolved_sha"])

\* C23 amended: the resolved identifier is absent when the revision changed
\* and after every --reinstall; it is kept when an install without
\* --reinstall finds the entry at the revision installed.
C23_ResolvedClearedOnChangeOrReinstall ==
  (call.op = "install" /\ call.edited # <<>>) =>
    \A i \in 1..Len(C23_Before), j \in 1..Len(C23_After) :
      /\ (C23_Before[i]["rev"] # call.rev \/ call.reinstall)
           => "resolved_sha" \notin DOMAIN C23_After[j]
      /\ (C23_Before[i]["rev"] = call.rev /\ ~call.reinstall
          /\ "resolved_sha" \in DOMAIN C23_Before[i])
           => (/\ "resolved_sha" \in DOMAIN C23_After[j]
               /\ C23_After[j]["resolved_sha"] = C23_Before[i]["resolved_sha"])

\* C23 witness: an install without --reinstall has changed the revision of
\* an entry that carried a resolved identifier.
C23_Witness ==
  /\ call.op = "install" /\ ~call.reinstall /\ call.edited # <<>>
  /\ Len(C23_Before) = 1 /\ Len(C23_After) = 1
  /\ "resolved_sha" \in DOMAIN C23_Before[1]
  /\ C23_Before[1]["rev"] # call.rev
  /\ C23_After[1]["rev"] = call.rev
  /\ "resolved_sha" \notin DOMAIN C23_After[1]

\* C24: the step in which an exception leaves the export leaves no temporary
\* directory behind, and the step in which a run leaves the export, by the
\* return (the export was reused or created) or by the exception, leaves the
\* run's working area removed.
C24_FailedExportLeavesNothing ==
  [][\A p \in Procs :
       /\ (xpc'[p] = "failed" /\ xpc[p] # "failed") => ~xtemp'.exists
       /\ (xpc'[p] \in {"reused", "created", "failed"} /\ xpc[p] # xpc'[p]) => ~xwork'[p]
    ]_vars

\* C24 witness: a run created the temporary directory, could not write a
\* file, and has raised: the temporary directory, the final path and the
\* run's working area are absent.
C24_Witness ==
  \E p \in Procs :
    /\ xpc[p] = "failed"
    /\ xerr[p]
    /\ xi[p] > 1
    /\ ~xtemp.exists
    /\ ~xdest.exists
    /\ ~xwork[p]

\* C25: in a run no git command of a repository's export is issued twice;
\* the command that fails is the last one issued, a missing git binary gives
\* the error "Command not found", and a failing command gives the error
\* "Command failed" with the command and, when git wrote a diagnostic, that
\* text.
C25_NoRetryAndDiagnostic ==
  call.op = "git" =>
    /\ unique(call.issued)
    /\ call.outcome.kind = "ok" <=> call.error = <<>>
    /\ call.outcome.kind = "missing" =>
         call.error = [prefix |-> "Command not found", cmd |-> "git"]
    /\ call.outcome.kind = "exit" =>
         /\ call.error.prefix = "Command failed"
         /\ call.error.cmd = call.issued[Len(call.issued)][2]
         /\ Strip(call.outcome.stderr) # <<>> =>
              call.error.text = Strip(call.outcome.stderr)

\* the links that point into an export the store does not hold while the
\* manifest data records that export's identifier for its repository
C26_Dangling ==
  {at \in LinkPaths :
     /\ links[at].kind = "symlink"
     /\ ~DirExists(store, links[at].to.root, FALSE, links[at].to.sha)
     /\ \E i \in 1..Len(Repos) :
          /\ repo_id(Repos[i]["repo"]) = links[at].to.root
          /\ DictGet(Repos[i], "resolved_sha", "") = links[at].to.sha}

ProcessedEntries ==
  {i \in 1..Len(Repos) : ~Filtered(Repos[i]) /\ collect_sparse_paths(Repos[i]) # <<>>}

C27_DistinctRootsKept ==
  (/\ pc = "persist"
   /\ failed_at = ""
   /\ repo_filter = NoFilter
   /\ \A i, j \in 1..Len(Repos) : Repos[i]["repo"] = Repos[j]["repo"] => i = j)
  => \A i \in ProcessedEntries :
       (\A j \in ProcessedEntries :
          repo_id(Repos[j]["repo"]) = repo_id(Repos[i]["repo"]) => j = i)
       => DirExists(store, repo_id(Repos[i]["repo"]), FALSE,
                    DictGet(Repos[i], "resolved_sha", ""))

\* the link paths where the invocation found a link that resolved into an
\* export of the store and left that link as it was
C28_EarlierLinks ==
  {at \in LinkPaths :
     /\ pre.links[at].kind = "symlink"
     /\ DirExists(pre.store, pre.links[at].to.root, FALSE, pre.links[at].to.sha)
     /\ links[at] = pre.links[at]}

\* C28: after a successful full sync no link of an earlier sync dangles:
\* every link that resolved into the store when the run began, and that the
\* run left in place, still resolves when the run has returned.
C28_NoDanglingLinks ==
  (pc = "done" /\ repo_filter = NoFilter)
  => \A at \in C28_EarlierLinks :
       DirExists(store, links[at].to.root, FALSE, links[at].to.sha)

\* two repository entries agree in everything a run must not change; the
\* resolved identifier is compared only when the entry was not processed
SameEntry(a, b, processed) ==
  /\ Without(a, "resolved_sha") = Without(b, "resolved_sha")
  /\ ~processed => Pick(a, {"resolved_sha"}) = Pick(b, {"resolved_sha"})

\* two manifests, as RootConfig.from_dict reads them, agree in version,
\* store root, agent targets and, entry by entry, in their repositories
SameManifest(a, b) ==
  /\ Without(a, "repos") = Without(b, "repos")
  /\ Len(a.repos) = Len(b.repos)
  /\ \A i \in 1..Len(a.repos) :
       SameEntry(a.repos[i], b.repos[i], i \in ProcessedEntries)

\* C29: a successful sync changes in the persisted manifest only the
\* resolved identifier of the repositories it processed.  When the run has
\* returned successfully, the manifest file read back has the version, store
\* root, agent targets, repository order, locators, revisions and skills it
\* had before the run, and the resolved identifier of every repository the
\* run did not process.
C29_OnlyResolvedChanges ==
  pc = "done" =>
    /\ root_ok(manifest)
    /\ SameManifest(root_from_dict(manifest), root_from_dict(pre.manifest))

\* a successful run that wrote the manifest file, over two repositories of
\* which one has a skill and a resolved identifier
C29_Witness ==
  /\ pc = "done"
  /\ manifest # pre.manifest
  /\ Len(Repos) = 2
  /\ \E i \in 1..Len(Repos) :
       /\ ~Filtered(Repos[i])
       /\ "resolved_sha" \in DOMAIN Repos[i]
       /\ DictGet(Repos[i], "skills", <<>>) # <<>>

\* the same frame for the data _sync_body mutates and hands to save_config:
\* at every point of the loop and after it, the data differs from what the
\* run started from only in the resolved identifier of processed entries
C29_DataFrame ==
  (pc \in {"loop", "skills", "prune", "persist", "write"} /\ "repos" \in DOMAIN data)
  => /\ Without(data, "repos") = Without([store_dir |-> DEFAULT_STORE_DIR] @@ pre.manifest, "repos")
     /\ Len(Repos) = Len(pre.manifest.repos)
     /\ \A i \in 1..Len(Repos) :
          SameEntry(Repos[i], pre.manifest.repos[i],
                    i \in ProcessedEntries /\ (i < ri \/ pc # "loop"))
====
